---- MODULE Spec2Model ----
(***************************************************************************)
(* TWA BillSplitter: the wizard of App.tsx (upload -> verify -> assign ->  *)
(* result), the item explosion of VerifyStep and the allocation of         *)
(* ResultStep.                                                             *)
(*                                                                         *)
(* Amounts are JavaScript numbers.  A number is modelled as a pair         *)
(* <<num, den>>, den a power of two, in lowest terms: the value num / den. *)
(* Every arithmetic operation rounds its exact result to the nearest value *)
(* with a significand of MantBits bits, ties to even, as IEEE-754 does     *)
(* (binary64 has 53 bits; the exponent range is not modelled).  <<0, 0>>   *)
(* stands for a value that is not a finite number (NaN, Infinity, or an    *)
(* absent field).                                                          *)
(***************************************************************************)
EXTENDS Integers, Sequences, FiniteSets, TLC

VARIABLES
    step,          \* App: the wizard step
    receiptData,   \* App: <<>> for null, <<data>> otherwise
    people,        \* App: Person[]
    assignments,   \* App: Assignment[]
    verifyData,    \* VerifyStep: its data state, <<>> while not mounted
    taxPercent,    \* VerifyStep with the tax percentage field: taxPercent
    result,        \* ResultStep: the memoized result, <<>> while not rendered
    now,           \* the clock: the value Date.now() returns
    assignPeople,  \* AssignStep: its people state
    assignMap,     \* AssignStep: its assignments record, the sequence of its
                   \* entries <<itemId, personId>> in insertion order
    isAnalyzing,   \* UploadStep: isAnalyzing
    error,         \* UploadStep: <<>> for null, <<message>> otherwise
    pc,            \* analyzeReceipt: where the call of handleFileChange stands
    attempt,       \* analyzeReceipt: the loop counter
    lastError,     \* analyzeReceipt: <<>> while undefined, <<error>> otherwise
    requests,      \* the generateContent requests sent for the current upload
    waitTime       \* analyzeReceipt: the delay being awaited in ms, 0 when none

appVars == <<step, receiptData, people, assignments, verifyData, result>>
assignVars == <<assignPeople, assignMap>>
uploadVars == <<isAnalyzing, error, pc, attempt, lastError, requests, waitTime>>

vars == <<appVars, now, taxPercent, assignVars, uploadVars>>

\* ------------------------------------------------------------------ bounds
MantBits == 10
MaxItems == 2
MaxPeople == 2
MaxUnits == 6
MaxNow == 1
MaxShown == 3
MaxChars == 5

\* ----------------------------------------------------------------- numbers
Zero == <<0, 1>>
NaN == <<0, 0>>

Abs(i) == IF i < 0 THEN -i ELSE i

Pow2(k) == 2 ^ k

RECURSIVE TwoAdic(_)
\* The number of trailing zero bits of a > 0.
TwoAdic(a) == IF a % 2 = 0 THEN 1 + TwoAdic(a \div 2) ELSE 0

RECURSIVE BitLen(_)
\* The number of bits of a >= 0.
BitLen(a) == IF a = 0 THEN 0 ELSE 1 + BitLen(a \div 2)

\* The pair, in lowest terms, of s * m * 2^e (s = 1 or -1, m >= 0).
Dyadic(s, m, e) ==
    IF m = 0 THEN Zero
    ELSE LET t == TwoAdic(m)
             o == m \div Pow2(t)
             x == e + t
         IN  IF x >= 0 THEN <<s * o * Pow2(x), 1>> ELSE <<s * o, Pow2(-x)>>

\* s * (a / d) * 2^e rounded to MantBits significant bits, ties to even
\* (a > 0, d > 0).
RoundScaled(s, a, d, e) ==
    LET k0 == BitLen(a) - BitLen(d) - MantBits
        Nm(k) == IF k >= 0 THEN a ELSE a * Pow2(-k)
        Dn(k) == IF k >= 0 THEN d * Pow2(k) ELSE d
        k  == IF Nm(k0) \div Dn(k0) >= Pow2(MantBits) THEN k0 + 1 ELSE k0
        q  == Nm(k) \div Dn(k)
        r  == Nm(k) % Dn(k)
        up == 2 * r > Dn(k) \/ (2 * r = Dn(k) /\ q % 2 = 1)
    IN  Dyadic(s, IF up THEN q + 1 ELSE q, k + e)

\* The number nearest to the exact quotient n / d (d > 0).
RoundRat(n, d) ==
    IF n = 0 THEN Zero
    ELSE LET tn == TwoAdic(Abs(n))
             td == TwoAdic(d)
         IN  RoundScaled(IF n < 0 THEN -1 ELSE 1,
                         Abs(n) \div Pow2(tn), d \div Pow2(td), tn - td)

\* The number of an integer literal.
Num(i) == RoundRat(i, 1)

Max(a, b) == IF a >= b THEN a ELSE b

\* x + y
FAdd(x, y) ==
    IF x = NaN \/ y = NaN THEN NaN
    ELSE LET D == Max(x[2], y[2])
         IN  RoundRat(x[1] * (D \div x[2]) + y[1] * (D \div y[2]), D)

\* x - y
FSub(x, y) ==
    IF x = NaN \/ y = NaN THEN NaN
    ELSE LET D == Max(x[2], y[2])
         IN  RoundRat(x[1] * (D \div x[2]) - y[1] * (D \div y[2]), D)

\* x * y
FMul(x, y) ==
    IF x = NaN \/ y = NaN THEN NaN
    ELSE RoundRat(x[1] * y[1], x[2] * y[2])

\* x / y: a division by zero yields Infinity or NaN, never an exception.
FDiv(x, y) ==
    IF x = NaN \/ y = NaN \/ y = Zero THEN NaN
    ELSE RoundRat((IF y[1] < 0 THEN -1 ELSE 1) * x[1] * y[2], x[2] * Abs(y[1]))

\* JavaScript truthiness of a number: 0 and NaN (and an absent field) are falsy.
Truthy(x) == x # Zero /\ x # NaN

\* a || b
OrElse(a, b) == IF Truthy(a) THEN a ELSE b

\* ------------------------------------------------------------- data model
\* ReceiptItem ids as analyzeReceipt builds them: `item-${index}-${Date.now()}`.
ItemId(index, t) == "item-" \o ToString(index) \o "-" \o ToString(t)

\* Person ids as addPerson builds them: `p-${Date.now()}`.
PersonId(t) == "p-" \o ToString(t)

ItemNames == <<"Nasi Goreng", "Es Teh", "Sate Ayam", "Mie Ayam", "Bakso">>
PersonNames == <<"Budi", "Ani", "Citra", "Dewi", "Eko">>

ReceiptItem(id, name, price, quantity) ==
    [id |-> id, name |-> name, price |-> price, quantity |-> quantity]

Person(id, name) == [id |-> id, name |-> name]

Assignment(itemId, personId) == [itemId |-> itemId, personId |-> personId]

Range(s) == {s[i] : i \in DOMAIN s}

\* ------------------------------------------------------------- ResultStep
\* items.reduce((acc, item) => acc + item.price, 0)
RECURSIVE SumPrices(_)
SumPrices(items) ==
    IF items = <<>> THEN Zero
    ELSE FAdd(SumPrices(SubSeq(items, 1, Len(items) - 1)), items[Len(items)].price)

\* Faulty variant: the receipt's subtotal is preferred to the sum of the items.
EffectiveSubtotal_ReceiptFirst(data) ==
    OrElse(OrElse(data.subtotal, SumPrices(data.items)), Num(1))

\* Faulty variant: the final `|| 1` forgotten.
EffectiveSubtotal_NoGuard(data) == OrElse(SumPrices(data.items), data.subtotal)

\* Faulty variant: only the assigned items are summed for the divisor.
EffectiveSubtotal_AssignedOnly(data) ==
    OrElse(OrElse(SumPrices(SelectSeq(data.items,
                      LAMBDA it : \E j \in DOMAIN assignments :
                                      assignments[j].itemId = it.id)),
                  data.subtotal),
           Num(1))

\* calculatedSubtotal || data.subtotal || 1
EffectiveSubtotal(data) ==
    OrElse(OrElse(SumPrices(data.items), data.subtotal), Num(1))

\* new Set(assignments.map(a => a.personId))
ActivePersonIds(asg) == {a.personId : a \in Range(asg)}

\* Faulty variant: the fees are divided by the number of assignment entries.
FeePerPerson_PerEntry(data, asg) ==
    IF Len(asg) > 0
    THEN FDiv(FAdd(data.deliveryFee, data.serviceFee), Num(Len(asg)))
    ELSE Zero

\* activePeopleCount > 0 ? totalFixedFees / activePeopleCount : 0
FeePerPerson(data, asg) ==
    LET activePeopleCount == Cardinality(ActivePersonIds(asg))
        totalFixedFees == FAdd(data.deliveryFee, data.serviceFee)
    IN  IF activePeopleCount > 0
        THEN FDiv(totalFixedFees, Num(activePeopleCount))
        ELSE Zero

\* Faulty variant: find instead of filter, only the first entry of the person counts.
PersonItems_FirstOnly(data, asg, person) ==
    LET mine == SelectSeq(asg, LAMBDA a : a.personId = person.id)
        personItemIds == IF mine = <<>> THEN {} ELSE {mine[1].itemId}
    IN  SelectSeq(data.items, LAMBDA item : item.id \in personItemIds)

\* Faulty variant: the items are looked up in the order of the assignment entries.
PersonItems_InAssignmentOrder(data, asg, person) ==
    LET mine == SelectSeq(asg, LAMBDA a : a.personId = person.id /\
                                   \E it \in Range(data.items) : it.id = a.itemId)
    IN  [i \in 1..Len(mine) |->
            CHOOSE it \in Range(data.items) : it.id = mine[i].itemId]

\* assignments.filter(a => a.personId === person.id).map(a => a.itemId);
\* data.items.filter(item => personItemIds.includes(item.id))
PersonItems(data, asg, person) ==
    LET personItemIds ==
            {a.itemId : a \in {b \in Range(asg) : b.personId = person.id}}
    IN  SelectSeq(data.items, LAMBDA item : item.id \in personItemIds)

\* Faulty variant: the tax is subtracted instead of added.
PersonResult_TaxSubtracted(data, asg, person) ==
    LET subtotal == EffectiveSubtotal(data)
        feePerPerson == FeePerPerson(data, asg)
        personItems == PersonItems(data, asg, person)
        personSubtotal == SumPrices(personItems)
        personDiscount == FMul(FDiv(personSubtotal, subtotal), data.totalDiscount)
        personTax == FMul(FDiv(personSubtotal, subtotal), data.tax)
        total == FAdd(FSub(FSub(personSubtotal, personDiscount), personTax), feePerPerson)
    IN  [person |-> person, items |-> personItems, subtotal |-> personSubtotal,
         discount |-> personDiscount, tax |-> personTax, fee |-> feePerPerson,
         total |-> total]

\* One row of personResults.
PersonResult(data, asg, person) ==
    LET subtotal == EffectiveSubtotal(data)
        feePerPerson == FeePerPerson(data, asg)
        personItems == PersonItems(data, asg, person)
        personSubtotal == SumPrices(personItems)
        personDiscount == FMul(FDiv(personSubtotal, subtotal), data.totalDiscount)
        personTax == FMul(FDiv(personSubtotal, subtotal), data.tax)
        total == FAdd(FAdd(FSub(personSubtotal, personDiscount), personTax), feePerPerson)
    IN  [person |-> person, items |-> personItems, subtotal |-> personSubtotal,
         discount |-> personDiscount, tax |-> personTax, fee |-> feePerPerson,
         total |-> total]

\* Faulty variant: the filter on the active persons forgotten.
PersonResults_Unfiltered(data, ppl, asg) ==
    [i \in 1..Len(ppl) |-> PersonResult(data, asg, ppl[i])]

\* Faulty variant: one row per active person in the order of the assignment entries.
PersonResults_InAssignmentOrder(data, ppl, asg) ==
    LET first == SelectSeq([i \in 1..Len(asg) |-> i],
                     LAMBDA i : /\ \A j \in 1..(i - 1) : asg[j].personId # asg[i].personId
                                /\ \E k \in DOMAIN ppl : ppl[k].id = asg[i].personId)
    IN  [n \in 1..Len(first) |->
            PersonResult(data, asg,
                CHOOSE q \in Range(ppl) : q.id = asg[first[n]].personId)]

\* people.filter(p => activePersonIds.has(p.id)).map(...)
PersonResults(data, ppl, asg) ==
    LET active == SelectSeq(ppl, LAMBDA p : p.id \in ActivePersonIds(asg))
    IN  [i \in 1..Len(active) |-> PersonResult(data, asg, active[i])]

\* personResults.reduce((acc, p) => acc + p.total, 0)
RECURSIVE SumTotals(_)
SumTotals(rows) ==
    IF rows = <<>> THEN Zero
    ELSE FAdd(SumTotals(SubSeq(rows, 1, Len(rows) - 1)), rows[Len(rows)].total)

\* The value of the useMemo: { personResults, totalCalculated }.
Result(data, ppl, asg) ==
    LET personResults == PersonResults(data, ppl, asg)
    IN  [personResults |-> personResults, totalCalculated |-> SumTotals(personResults)]

\* --------------------------------------- ResultStep rendered with any props
AllocPrices == {Num(0), Num(8000), Num(12000)}

\* The receipts handed to ResultStep: up to MaxItems single-quantity items.
AllocItemLists ==
    UNION {[1..n -> AllocPrices] : n \in 0..MaxItems}

AllocItems(prices) ==
    [i \in 1..Len(prices) |-> ReceiptItem(ItemId(i - 1, 0), ItemNames[i], prices[i], 1)]

\* subtotal, totalDiscount, tax, deliveryFee, serviceFee of the receipts.
AllocCharges ==
    {<<Num(20000), Num(2000), Num(2000), Num(4000), Num(0)>>,
     <<Num(0), Num(1000), Num(2000), Num(3000), Num(1000)>>,
     <<NaN, Num(1000), Num(2000), Num(3000), Num(1000)>>}

\* The subtotal is read only when the item prices sum to a falsy value, so an
\* absent subtotal is paired with those receipts only.
AllocData ==
    UNION {{[merchantName |-> "Risol Mejik", date |-> "10 December 2025",
             items |-> AllocItems(prices), subtotal |-> c[1], totalDiscount |-> c[2],
             tax |-> c[3], deliveryFee |-> c[4], serviceFee |-> c[5]] :
                c \in {d \in AllocCharges :
                          d[1] = NaN => \A i \in 1..Len(prices) : prices[i] = Zero}} :
           prices \in AllocItemLists}

PersonPool == {Person(PersonId(k), PersonNames[k]) : k \in 1..MaxPeople}

Reverse(s) == [i \in 1..Len(s) |-> s[Len(s) + 1 - i]]

\* The people lists: the first n people added, or all of them in reverse order.
AllocPeople ==
    LET pool == [k \in 1..MaxPeople |-> Person(PersonId(k), PersonNames[k])]
    IN  {SubSeq(pool, 1, n) : n \in 0..MaxPeople} \cup {Reverse(pool)}

\* Assignment lists as Object.entries yields them: at most one entry per item id,
\* here in the order of the item ids or in the reverse order.
AllocAssignments ==
    LET ids == [i \in 1..MaxItems |-> ItemId(i - 1, 0)]
        pid == {p.id : p \in PersonPool}
        InOrder == {[i \in 1..Len(sel) |-> Assignment(sel[i], f[sel[i]])] :
                        sel \in {SelectSeq(ids, LAMBDA x : x \in S) : S \in SUBSET Range(ids)},
                        f \in [Range(ids) -> pid]}
    IN  InOrder \cup {Reverse(a) : a \in InOrder}

InitAlloc ==
    /\ step = "result"
    /\ receiptData \in {<<d>> : d \in AllocData}
    /\ people \in AllocPeople
    /\ assignments \in AllocAssignments
    /\ verifyData = <<>>
    /\ result = <<>>
    /\ now = 0
    /\ taxPercent = Zero
    /\ assignPeople = <<>> /\ assignMap = <<>>
    /\ isAnalyzing = FALSE /\ error = <<>> /\ pc = "idle"
    /\ attempt = 0 /\ lastError = <<>> /\ requests = 0 /\ waitTime = 0

\* ResultStep renders: the useMemo computes result from the props.
RenderResult ==
    /\ step = "result"
    /\ receiptData # <<>>
    /\ result = <<>>
    /\ result' = <<Result(receiptData[1], people, assignments)>>
    /\ UNCHANGED <<step, receiptData, people, assignments, verifyData>>
    /\ UNCHANGED <<now, taxPercent, assignVars, uploadVars>>

NextAlloc == RenderResult

SpecAlloc == InitAlloc /\ [][NextAlloc]_vars

\* ===================================================================== wizard
\* The four steps of App.tsx: upload, verify, assign, result.

\* Faulty variant: the unit price is left undivided.
ExplodeItem_FullPrice(item) ==
    IF item.quantity > 1
    THEN [i \in 1..item.quantity |->
            ReceiptItem(item.id \o "-" \o ToString(i - 1),
                        item.name \o " (" \o ToString(i) \o "/"
                                  \o ToString(item.quantity) \o ")",
                        item.price, 1)]
    ELSE <<item>>

\* Faulty variant: every quantity from 1 on is exploded.
ExplodeItem_FromOne(item) ==
    IF item.quantity >= 1
    THEN LET unitPrice == FDiv(item.price, Num(item.quantity))
         IN  [i \in 1..item.quantity |->
                ReceiptItem(item.id \o "-" \o ToString(i - 1),
                            item.name \o " (" \o ToString(i) \o "/"
                                      \o ToString(item.quantity) \o ")",
                            unitPrice, 1)]
    ELSE <<item>>

\* The entries the explosion effect pushes for one item: quantity > 1 gives
\* quantity entries at price / quantity, ids "<id>-<i>" and names
\* "<name> (<i+1>/<quantity>)"; any other item is pushed unchanged.
ExplodeItem(item) ==
    IF item.quantity > 1
    THEN LET unitPrice == FDiv(item.price, Num(item.quantity))
         IN  [i \in 1..item.quantity |->
                ReceiptItem(item.id \o "-" \o ToString(i - 1),
                            item.name \o " (" \o ToString(i) \o "/"
                                      \o ToString(item.quantity) \o ")",
                            unitPrice, 1)]
    ELSE <<item>>

\* Faulty variant: the entries of each item are put in front of the list.
RECURSIVE ExplodedItems_Unshift(_)
ExplodedItems_Unshift(items) ==
    IF items = <<>> THEN <<>>
    ELSE ExplodeItem(items[Len(items)])
            \o ExplodedItems_Unshift(SubSeq(items, 1, Len(items) - 1))

\* explodedItems after the forEach over initialData.items.
RECURSIVE ExplodedItems(_)
ExplodedItems(items) ==
    IF items = <<>> THEN <<>>
    ELSE ExplodedItems(SubSeq(items, 1, Len(items) - 1)) \o ExplodeItem(items[Len(items)])

\* VerifyStep's data after mounting: useState(initialData), then the effect
\* replaces the items when the exploded list has another length.
VerifyStep(initialData) ==
    LET explodedItems == ExplodedItems(initialData.items)
    IN  IF Len(explodedItems) # Len(initialData.items)
        THEN [initialData EXCEPT !.items = explodedItems]
        ELSE initialData

\* The receipts the extraction hands over: up to MaxItems lines of up to
\* MaxUnits units in total, quantity 0 included.
ExtractPrices == {Num(1000), Num(12000)}

RECURSIVE Units(_)
Units(lines) ==
    IF lines = <<>> THEN 0 ELSE lines[1][2] + Units(Tail(lines))

ExtractLines ==
    {lines \in UNION {[1..n -> ExtractPrices \X (0..MaxUnits)] : n \in 0..MaxItems} :
        Units(lines) <= MaxUnits}

ExtractedData ==
    {[merchantName |-> "Risol Mejik", date |-> "10 December 2025",
      items |-> [i \in 1..Len(lines) |->
                    ReceiptItem(ItemId(i - 1, 0), ItemNames[i], lines[i][1], lines[i][2])],
      subtotal |-> Num(20000), totalDiscount |-> Num(2000), tax |-> Num(2000),
      deliveryFee |-> Num(4000), serviceFee |-> Num(0)] : lines \in ExtractLines}

\* What AssignStep's finish button hands over for the items: every item has an
\* entry (isComplete), all given to one person of the list or dealt round.
FinishedAssignments(items, ppl) ==
    IF items = <<>> THEN {<<>>}
    ELSE IF ppl = <<>> THEN {}
    ELSE {[i \in 1..Len(items) |-> Assignment(items[i].id, ppl[k].id)] :
              k \in 1..Len(ppl)}
         \cup {[i \in 1..Len(items) |->
                  Assignment(items[i].id, ppl[((i - 1) % Len(ppl)) + 1].id)]}

Init ==
    /\ step = "upload"
    /\ receiptData = <<>>
    /\ people = <<>>
    /\ assignments = <<>>
    /\ verifyData = <<>>
    /\ result = <<>>
    /\ now = 0
    /\ taxPercent = Zero
    /\ assignPeople = <<>> /\ assignMap = <<>>
    /\ isAnalyzing = FALSE /\ error = <<>> /\ pc = "idle"
    /\ attempt = 0 /\ lastError = <<>> /\ requests = 0 /\ waitTime = 0

HandleDataExtracted(data) ==
    /\ step = "upload"
    /\ receiptData' = <<data>>
    /\ step' = "verify"
    /\ UNCHANGED <<people, assignments, verifyData, result>>

\* VerifyStep is rendered for the verify step and mounts with the receipt.
MountVerifyStep ==
    /\ step = "verify"
    /\ receiptData # <<>>
    /\ verifyData = <<>>
    /\ verifyData' = <<VerifyStep(receiptData[1])>>
    /\ UNCHANGED <<step, receiptData, people, assignments, result>>
    /\ UNCHANGED <<now, taxPercent, assignVars, uploadVars>>

\* The confirm button: onConfirm(data).
HandleVerified ==
    /\ step = "verify"
    /\ verifyData # <<>>
    /\ receiptData' = verifyData
    /\ step' = "assign"
    /\ verifyData' = <<>>
    /\ UNCHANGED <<people, assignments, result>>
    /\ UNCHANGED <<now, taxPercent, assignVars, uploadVars>>

\* AssignStep's back button.
AssignBack ==
    /\ step = "assign"
    /\ receiptData # <<>>
    /\ step' = "verify"
    /\ UNCHANGED <<receiptData, people, assignments, verifyData, result>>
    /\ UNCHANGED <<now, taxPercent, assignVars, uploadVars>>

HandleAssignmentFinished(newAssignments, newPeople) ==
    /\ step = "assign"
    /\ receiptData # <<>>
    /\ assignments' = newAssignments
    /\ people' = newPeople
    /\ step' = "result"
    /\ UNCHANGED <<receiptData, verifyData, result>>
    /\ UNCHANGED <<now, taxPercent, assignVars, uploadVars>>

\* AssignStep's finish button: onFinish(Object.entries(assignments)..., people).
AssignFinish ==
    /\ step = "assign"
    /\ receiptData # <<>>
    /\ \E newPeople \in AllocPeople :
          \E newAssignments \in FinishedAssignments(receiptData[1].items, newPeople) :
              HandleAssignmentFinished(newAssignments, newPeople)

\* Faulty variant: the reset only goes back to the upload step.
ResetApp_StepOnly ==
    /\ step' = "upload"
    /\ verifyData' = <<>>
    /\ result' = <<>>
    /\ UNCHANGED <<receiptData, people, assignments>>
    /\ UNCHANGED <<now, taxPercent, assignVars, uploadVars>>

\* The header logo, VerifyStep's back button and ResultStep's reset button.
ResetApp ==
    /\ receiptData' = <<>>
    /\ people' = <<>>
    /\ assignments' = <<>>
    /\ step' = "upload"
    /\ verifyData' = <<>>
    /\ result' = <<>>
    /\ UNCHANGED <<now, taxPercent, assignVars, uploadVars>>

Next ==
    \/ \E data \in ExtractedData :
          HandleDataExtracted(data) /\ UNCHANGED <<now, taxPercent, assignVars, uploadVars>>
    \/ MountVerifyStep
    \/ HandleVerified
    \/ AssignBack
    \/ AssignFinish
    \/ RenderResult
    \/ ResetApp

Spec == Init /\ [][Next]_vars

\* =============================================================== VerifyStep
\* VerifyStep on its own: mounted with a receipt, then edited by the user
\* while the clock advances.

\* The receipts VerifyStep is mounted with: no line or one line, whose price may
\* be absent and whose quantity may be 0.
VerifyLines == {<<Num(1000), 1>>, <<Num(1000), 2>>, <<Num(5000), 0>>, <<NaN, 2>>}

VerifyInitialData ==
    {[merchantName |-> "Risol Mejik", date |-> "10 December 2025",
      items |-> [i \in 1..Len(lines) |->
                    ReceiptItem(ItemId(i - 1, 0), ItemNames[i], lines[i][1], lines[i][2])],
      subtotal |-> Num(20000), totalDiscount |-> Num(2000), tax |-> Num(2000),
      deliveryFee |-> Num(4000), serviceFee |-> Num(0)] :
        lines \in UNION {[1..n -> VerifyLines] : n \in 0..1}}

InitVerify ==
    /\ step = "verify"
    /\ receiptData \in {<<d>> : d \in VerifyInitialData}
    /\ people = <<>>
    /\ assignments = <<>>
    /\ verifyData = <<>>
    /\ result = <<>>
    /\ now = 0
    /\ taxPercent = Zero
    /\ assignPeople = <<>> /\ assignMap = <<>>
    /\ isAnalyzing = FALSE /\ error = <<>> /\ pc = "idle"
    /\ attempt = 0 /\ lastError = <<>> /\ requests = 0 /\ waitTime = 0

\* Time passes: Date.now() returns a later value.
Tick ==
    /\ now < MaxNow
    /\ now' = now + 1
    /\ UNCHANGED <<appVars, taxPercent, assignVars, uploadVars>>

\* The name input and the price input of the item at index (0-based in the
\* code, 1-based here); the price arrives through parseThousands.
HandleUpdateItem(index, field, value) ==
    /\ step = "verify"
    /\ verifyData # <<>>
    /\ index \in DOMAIN verifyData[1].items
    /\ verifyData' = <<[verifyData[1] EXCEPT !.items[index][field] = value]>>
    /\ UNCHANGED <<step, receiptData, people, assignments, result>>
    /\ UNCHANGED <<now, taxPercent, assignVars, uploadVars>>

HandleDeleteItem(index) ==
    /\ step = "verify"
    /\ verifyData # <<>>
    /\ index \in DOMAIN verifyData[1].items
    /\ LET items == verifyData[1].items
           newItems == SubSeq(items, 1, index - 1) \o SubSeq(items, index + 1, Len(items))
       IN  verifyData' = <<[verifyData[1] EXCEPT !.items = newItems]>>
    /\ UNCHANGED <<step, receiptData, people, assignments, result>>
    /\ UNCHANGED <<now, taxPercent, assignVars, uploadVars>>

HandleAddItem ==
    /\ step = "verify"
    /\ verifyData # <<>>
    /\ Len(verifyData[1].items) < MaxShown
    /\ LET newItem == ReceiptItem("manual-" \o ToString(now), "Menu Baru", Num(0), 1)
       IN  verifyData' =
              <<[verifyData[1] EXCEPT !.items = Append(verifyData[1].items, newItem)]>>
    /\ UNCHANGED <<step, receiptData, people, assignments, result>>
    /\ UNCHANGED <<now, taxPercent, assignVars, uploadVars>>

NextVerify ==
    \/ Tick
    \/ MountVerifyStep
    \/ \E index \in 1..MaxShown : HandleUpdateItem(index, "name", "Es Jeruk")
    \/ \E index \in 1..MaxShown : HandleUpdateItem(index, "price", Num(8000))
    \/ \E index \in 1..MaxShown : HandleDeleteItem(index)
    \/ HandleAddItem

SpecVerify == InitVerify /\ [][NextVerify]_vars

\* =============================================================== AssignStep
\* AssignStep on its own: people are added and removed, items are given to
\* people in their selectors, the finish button hands the result to App.

\* The value of assignments[itemId]: <<>> while the record has no such key.
Lookup(map, itemId) ==
    IF \E i \in DOMAIN map : map[i][1] = itemId
    THEN <<map[CHOOSE i \in DOMAIN map : map[i][1] = itemId][2]>>
    ELSE <<>>

\* What may stand in the name input, and newPersonName.trim().
TypedNames == {"Budi", "Ani", " "}
Trim(name) == IF name = " " THEN "" ELSE name

\* Faulty variant: the entry is added even when the item already has one.
Assigned_Appended(map, itemId, personId) == Append(map, <<itemId, personId>>)

\* { ...prev, [itemId]: personId }: an existing key keeps its place.
Assigned(map, itemId, personId) ==
    IF Lookup(map, itemId) # <<>>
    THEN [i \in DOMAIN map |->
            IF map[i][1] = itemId THEN <<itemId, personId>> ELSE map[i]]
    ELSE Append(map, <<itemId, personId>>)

\* Faulty variant: the entries of the removed person are kept.
Unassigned_Kept(map, id) == map

\* The record after removePerson has deleted every key whose value is id.
Unassigned(map, id) == SelectSeq(map, LAMBDA e : e[2] # id)

\* Faulty variant: an entry counts whatever its value.
IsComplete_HasKey(data, map) ==
    \A i \in DOMAIN data.items : Lookup(map, data.items[i].id) # <<>>

\* data.items.every(item => assignments[item.id])
IsComplete(data, map) ==
    \A i \in DOMAIN data.items :
        LET v == Lookup(map, data.items[i].id)
        IN  v # <<>> /\ v[1] # ""

\* The finish button's disabled attribute.
FinishDisabled == ~IsComplete(receiptData[1], assignMap)

\* Object.entries(assignments).map(([itemId, personId]) => ({ itemId, personId }))
FinalAssignments(map) == [i \in DOMAIN map |-> Assignment(map[i][1], map[i][2])]

\* The receipts AssignStep is mounted with: the first n of MaxItems items, or
\* two items that got the same id.
AssignItemLists ==
    {[i \in 1..n |-> ReceiptItem(ItemId(i - 1, 0), ItemNames[i], Num(8000), 1)] :
        n \in 0..MaxItems}
    \cup {<<ReceiptItem(ItemId(0, 0), ItemNames[1], Num(8000), 1),
            ReceiptItem(ItemId(0, 0), ItemNames[2], Num(8000), 1)>>}

AssignData ==
    {[merchantName |-> "Risol Mejik", date |-> "10 December 2025",
      items |-> items,
      subtotal |-> Num(20000), totalDiscount |-> Num(2000), tax |-> Num(2000),
      deliveryFee |-> Num(4000), serviceFee |-> Num(0)] : items \in AssignItemLists}

InitAssign ==
    /\ step = "assign"
    /\ receiptData \in {<<d>> : d \in AssignData}
    /\ people = <<>>
    /\ assignments = <<>>
    /\ verifyData = <<>>
    /\ result = <<>>
    /\ now = 0
    /\ taxPercent = Zero
    /\ assignPeople = <<>> /\ assignMap = <<>>
    /\ isAnalyzing = FALSE /\ error = <<>> /\ pc = "idle"
    /\ attempt = 0 /\ lastError = <<>> /\ requests = 0 /\ waitTime = 0

\* The add button (or Enter) with newPersonName in the name input.
AddPerson(newPersonName) ==
    /\ step = "assign"
    /\ Len(assignPeople) < MaxPeople
    /\ IF Trim(newPersonName) = ""
       THEN UNCHANGED assignPeople
       ELSE assignPeople' =
                Append(assignPeople, Person(PersonId(now), newPersonName))
    /\ UNCHANGED <<appVars, now, taxPercent, assignMap, uploadVars>>

\* The remove button of a person of the list.
RemovePerson(id) ==
    /\ step = "assign"
    /\ \E i \in DOMAIN assignPeople : assignPeople[i].id = id
    /\ assignPeople' = SelectSeq(assignPeople, LAMBDA p : p.id # id)
    /\ assignMap' = Unassigned(assignMap, id)
    /\ UNCHANGED <<appVars, now, taxPercent, uploadVars>>

\* The selector of an item: a person of the list or the empty first option.
HandleAssign(itemId, personId) ==
    /\ step = "assign"
    /\ receiptData # <<>>
    /\ \E i \in DOMAIN receiptData[1].items : receiptData[1].items[i].id = itemId
    /\ personId = "" \/ \E i \in DOMAIN assignPeople : assignPeople[i].id = personId
    /\ assignMap' = Assigned(assignMap, itemId, personId)
    /\ UNCHANGED <<appVars, now, taxPercent, assignPeople, uploadVars>>

\* The finish button: onFinish(finalAssignments, people).
FinishAssignStep ==
    /\ step = "assign"
    /\ receiptData # <<>>
    /\ ~FinishDisabled
    /\ HandleAssignmentFinished(FinalAssignments(assignMap), assignPeople)

ItemIdPool == {ItemId(i - 1, 0) : i \in 1..MaxItems}
PersonIdPool == {PersonId(t) : t \in 0..MaxNow} \cup {""}

NextAssign ==
    \/ Tick
    \/ \E newPersonName \in TypedNames : AddPerson(newPersonName)
    \/ \E id \in PersonIdPool : RemovePerson(id)
    \/ \E itemId \in ItemIdPool, personId \in PersonIdPool : HandleAssign(itemId, personId)
    \/ FinishAssignStep
    \/ RenderResult

SpecAssign == InitAssign /\ [][NextAssign]_vars

\* ================================================================= currency
\* The price and discount inputs of VerifyStep show formatThousands(value) and
\* store parseThousands(typed text).  Text is a sequence of one-character
\* strings.
Digits == <<"0", "1", "2", "3", "4", "5", "6", "7", "8", "9">>

DigitValue(c) == CHOOSE d \in 0..9 : Digits[d + 1] = c

RECURSIVE DigitsOf(_)
\* The decimal digits of the natural number n.
DigitsOf(n) ==
    IF n < 10 THEN <<Digits[n + 1]>>
    ELSE Append(DigitsOf(n \div 10), Digits[(n % 10) + 1])

RECURSIVE Grouped(_)
\* id-ID grouping: a "." before every group of three digits.
Grouped(ds) ==
    IF Len(ds) <= 3 THEN ds
    ELSE Grouped(SubSeq(ds, 1, Len(ds) - 3)) \o <<".">> \o SubSeq(ds, Len(ds) - 2, Len(ds))

\* maximumFractionDigits: 2 -- |val| in hundredths, halves rounded away from 0.
Cents(val) ==
    LET a == Abs(val[1])
        d == val[2]
    IN  (a \div d) * 100 + (200 * (a % d) + d) \div (2 * d)

\* formatThousands: '' for an absent value, else toLocaleString('id-ID') with
\* 0 to 2 fraction digits: grouped integer digits, "," and the fraction
\* without trailing zeros.
FormatThousands(val) ==
    IF val = NaN THEN <<>>
    ELSE LET c == Cents(val) % 100
             fraction == IF c = 0 THEN <<>>
                         ELSE IF c % 10 = 0 THEN <<",", Digits[(c \div 10) + 1]>>
                         ELSE <<",", Digits[(c \div 10) + 1], Digits[(c % 10) + 1]>>
         IN  (IF val[1] < 0 THEN <<"-">> ELSE <<>>)
                \o Grouped(DigitsOf(Cents(val) \div 100)) \o fraction

RECURSIVE LeadingDigits(_)
\* The longest prefix of text made of digits.
LeadingDigits(text) ==
    IF text = <<>> \/ text[1] \notin Range(Digits) THEN <<>>
    ELSE <<text[1]>> \o LeadingDigits(Tail(text))

RECURSIVE DigitsValue(_)
DigitsValue(ds) ==
    IF ds = <<>> THEN 0
    ELSE 10 * DigitsValue(SubSeq(ds, 1, Len(ds) - 1)) + DigitValue(ds[Len(ds)])

\* The decimal literal parseFloat reads at the start of a text of digits and
\* dots, as the exact fraction <<n, 10^k>>; <<>> when there is no digit.
DecimalLiteral(text) ==
    LET whole == LeadingDigits(text)
        rest == SubSeq(text, Len(whole) + 1, Len(text))
        fraction == IF rest # <<>> /\ rest[1] = "." THEN LeadingDigits(Tail(rest)) ELSE <<>>
    IN  IF whole = <<>> /\ fraction = <<>> THEN <<>>
        ELSE <<<<DigitsValue(whole \o fraction), 10 ^ Len(fraction)>>>>

\* parseFloat(clean): the number nearest to the literal, NaN without one.
ParseFloat(text) ==
    IF DecimalLiteral(text) = <<>> THEN NaN
    ELSE RoundRat(DecimalLiteral(text)[1][1], DecimalLiteral(text)[1][2])

\* val.replace(/\./g, '').replace(/,/g, '.').replace(/[^0-9.]/g, '')
Clean(val) ==
    LET noDots == SelectSeq(val, LAMBDA c : c # ".")
        pointed == [i \in DOMAIN noDots |-> IF noDots[i] = "," THEN "." ELSE noDots[i]]
    IN  SelectSeq(pointed, LAMBDA c : c \in Range(Digits) \cup {"."})

\* Faulty variant: the thousands separators are not removed.
ParseThousands_KeepDots(val) ==
    LET pointed == [i \in DOMAIN val |-> IF val[i] = "," THEN "." ELSE val[i]]
    IN  OrElse(ParseFloat(SelectSeq(pointed, LAMBDA c : c \in Range(Digits) \cup {"."})),
               Zero)

\* parseThousands: parseFloat(clean) || 0
ParseThousands(val) == OrElse(ParseFloat(Clean(val)), Zero)

\* The keys pressed in an input, and the text the input then reports: the
\* shown text with the key appended or, for Backspace, without its last
\* character.
TypedKeys == {"0", "5", ",", ".", "-", "Backspace"}

Typed(shown, key) ==
    IF key = "Backspace"
    THEN (IF shown = <<>> THEN <<>> ELSE SubSeq(shown, 1, Len(shown) - 1))
    ELSE Append(shown, key)

\* The receipts whose amounts are edited: one line of quantity 1.
CurrencyPrices ==
    {RoundRat(n, 100) : n \in {50, 1275, 7}} \cup {<<1, 8>>, Num(-5000), NaN}

CurrencyInitialData ==
    {[merchantName |-> "Risol Mejik", date |-> "10 December 2025",
      items |-> <<ReceiptItem(ItemId(0, 0), ItemNames[1], price, 1)>>,
      subtotal |-> Num(20000), totalDiscount |-> Num(2000), tax |-> Num(2000),
      deliveryFee |-> Num(4000), serviceFee |-> Num(0)] :
        price \in CurrencyPrices}

InitCurrency ==
    /\ step = "verify"
    /\ receiptData \in {<<d>> : d \in CurrencyInitialData}
    /\ people = <<>>
    /\ assignments = <<>>
    /\ verifyData = <<>>
    /\ result = <<>>
    /\ now = 0
    /\ taxPercent = Zero
    /\ assignPeople = <<>> /\ assignMap = <<>>
    /\ isAnalyzing = FALSE /\ error = <<>> /\ pc = "idle"
    /\ attempt = 0 /\ lastError = <<>> /\ requests = 0 /\ waitTime = 0

\* A key pressed in the price input of the item at index.
TypePrice(index, key) ==
    /\ verifyData # <<>>
    /\ index \in DOMAIN verifyData[1].items
    /\ LET shown == FormatThousands(verifyData[1].items[index].price)
       IN  /\ key # "Backspace" => Len(shown) < MaxChars
           /\ Typed(shown, key) # shown
           /\ HandleUpdateItem(index, "price", ParseThousands(Typed(shown, key)))

\* A key pressed in the discount input.
TypeDiscount(key) ==
    /\ step = "verify"
    /\ verifyData # <<>>
    /\ LET shown == FormatThousands(verifyData[1].totalDiscount)
       IN  /\ key # "Backspace" => Len(shown) < MaxChars
           /\ Typed(shown, key) # shown
           /\ verifyData' = <<[verifyData[1] EXCEPT
                                  !.totalDiscount = ParseThousands(Typed(shown, key))]>>
    /\ UNCHANGED <<step, receiptData, people, assignments, result>>
    /\ UNCHANGED <<now, taxPercent, assignVars, uploadVars>>

NextCurrency ==
    \/ MountVerifyStep
    \/ \E key \in TypedKeys : TypePrice(1, key)
    \/ \E key \in TypedKeys : TypeDiscount(key)

SpecCurrency == InitCurrency /\ [][NextCurrency]_vars

\* =============================================================== UploadStep
\* UploadStep.handleFileChange and analyzeReceipt: the file is read, then the
\* model is asked up to MAX_RETRIES times.  A message is a sequence of pieces
\* of text; includes() looks for a piece.
MAX_RETRIES == 3

Includes(message, piece) == \E i \in DOMAIN message : message[i] = piece

\* The message of the SDK's error for an HTTP error response: the response
\* body, a JSON object; text is <<>> when the body has no message.
ApiErrorMessage(code, text, status) ==
    <<"{\"error\":", "{\"code\":", ToString(code)>>
        \o (IF text = <<>> THEN <<>> ELSE <<",\"message\":">> \o text)
        \o <<",\"status\":", status, "}}">>

\* The errors a request ends with: message is <<>> when the thrown value has
\* none, status is 0 when it has none.
Overloaded ==
    [message |-> <<ApiErrorMessage(503, <<"The model is ", "overloaded",
                                          ". Please try again later.">>, "UNAVAILABLE")>>,
     status |-> 503]
OverloadedNoText == [message |-> <<ApiErrorMessage(503, <<>>, "UNAVAILABLE")>>, status |-> 503]
GatewayUnavailable == [message |-> <<<<"got status: ", "503", " Service Unavailable">>>>, status |-> 0]
GatewayHtml ==
    [message |-> <<<<"got status: ", "503", " ", "{\"error\":", "<html>">>>>, status |-> 0]
StatusOnly == [message |-> <<>>, status |-> 503]
InvalidKey ==
    [message |-> <<ApiErrorMessage(400, <<"API key not valid.">>, "INVALID_ARGUMENT")>>,
     status |-> 400]
RateLimited ==
    [message |-> <<ApiErrorMessage(429, <<"Resource has been exhausted.">>,
                                   "RESOURCE_EXHAUSTED")>>,
     status |-> 429]
NoResponse == [message |-> <<<<"No response from AI">>>>, status |-> 0]
\* The SyntaxError JSON.parse throws for a response text that is not JSON.
NotJson ==
    [message |-> <<<<"Unexpected token ", "<", " in JSON at position ", "0">>>>, status |-> 0]

UnavailableErrors == {Overloaded, OverloadedNoText, GatewayUnavailable, GatewayHtml, StatusOnly}
OtherErrors == {InvalidKey, RateLimited, NoResponse, NotJson}
ServiceErrors == UnavailableErrors \cup OtherErrors

\* JSON.stringify(error) of an error without message.
Stringified(e) == <<"{\"status\":", ToString(e.status), "}">>

\* Faulty variant: every failure is retried.
IsTransient_AnyError(e) == e \in ServiceErrors

\* isTransient of the catch block.
IsTransient(e) ==
    LET errorMessage == IF e.message # <<>> THEN e.message[1] ELSE Stringified(e)
    IN  \/ Includes(errorMessage, "503")
        \/ Includes(errorMessage, "overloaded")
        \/ Includes(errorMessage, "UNAVAILABLE")
        \/ e.status = 503

DefaultMessage ==
    <<"Gagal menghubungi AI. Model sedang sibuk, silakan coba lagi sebentar lagi.">>
GenericMessage == <<"Gagal menganalisa struk. Pastikan gambar jelas dan coba lagi.">>
ReadFailedMessage == <<"Failed to read file">>

\* message.match(/\{.*\}/) and JSON.parse: the text from the first "{" to the
\* last "}" parses when it is a whole error object.
JsonPart(message) ==
    LET first == CHOOSE i \in DOMAIN message :
                    /\ message[i] = "{\"error\":"
                    /\ \A j \in 1..(i - 1) : message[j] # "{\"error\":"
    IN  SubSeq(message, first, Len(message))

JsonParses(json) == json[Len(json)] = "}}"

\* errObj.error.message: <<>> when the object has none.
ErrorObjectMessage(json) ==
    IF Includes(json, ",\"message\":")
    THEN LET from == CHOOSE i \in DOMAIN json : json[i] = ",\"message\":"
             to == CHOOSE i \in DOMAIN json : json[i] = ",\"status\":"
         IN  SubSeq(json, from + 1, to - 1)
    ELSE <<>>

\* friendlyMessage, from lastError (<<>> when nothing was caught).
FriendlyMessage(last) ==
    IF last = <<>> \/ last[1].message = <<>> THEN DefaultMessage
    ELSE LET message == last[1].message[1]
         IN  IF Includes(message, "{\"error\":")
             THEN IF ~JsonParses(JsonPart(message)) THEN message
                  ELSE IF ErrorObjectMessage(JsonPart(message)) # <<>>
                       THEN <<"AI Error: ">> \o ErrorObjectMessage(JsonPart(message))
                       ELSE DefaultMessage
             ELSE message

\* The ids analyzeReceipt gives the items: `item-${index}-${Date.now()}`.
WithIds(data, t) ==
    [data EXCEPT !.items = [i \in DOMAIN data.items |->
                               [data.items[i] EXCEPT !.id = ItemId(i - 1, t)]]]

\* Faulty variant: without the finally block the busy flag stays set.
Rejected_StaysBusy(message) ==
    /\ error' = <<IF message # <<>> THEN message[1] ELSE GenericMessage>>
    /\ isAnalyzing' = isAnalyzing
    /\ pc' = "idle"

\* handleFileChange's catch and finally: err.message, or the generic text.
Rejected(message) ==
    /\ error' = <<IF message # <<>> THEN message[1] ELSE GenericMessage>>
    /\ isAnalyzing' = FALSE
    /\ pc' = "idle"

\* Faulty variant: the request is sent before the file is read.
HandleFileChange_RequestFirst ==
    /\ step = "upload"
    /\ ~isAnalyzing
    /\ pc = "idle"
    /\ isAnalyzing' = TRUE
    /\ error' = <<>>
    /\ pc' = "reading"
    /\ attempt' = 0 /\ lastError' = <<>> /\ requests' = 1 /\ waitTime' = 0
    /\ UNCHANGED <<appVars, now, taxPercent, assignVars>>

\* Faulty variant: the file input is not disabled during the analysis.
HandleFileChange_NotDisabled ==
    /\ step = "upload"
    /\ isAnalyzing' = TRUE
    /\ error' = <<>>
    /\ pc' = "reading"
    /\ attempt' = 0 /\ lastError' = <<>> /\ requests' = 0 /\ waitTime' = 0
    /\ UNCHANGED <<appVars, now, taxPercent, assignVars>>

\* A file is chosen: handleFileChange up to the await of the file reader.
HandleFileChange ==
    /\ step = "upload"
    /\ ~isAnalyzing
    /\ pc = "idle"
    /\ isAnalyzing' = TRUE
    /\ error' = <<>>
    /\ pc' = "reading"
    /\ attempt' = 0 /\ lastError' = <<>> /\ requests' = 0 /\ waitTime' = 0
    /\ UNCHANGED <<appVars, now, taxPercent, assignVars>>

\* The file reader finishes: with the file's content (the loop starts and the
\* first request is sent), with no content, or with a read error, whose event
\* has no message.
FileReadOutcomes == {"loaded", "empty", "error"}

FileRead(outcome) ==
    /\ pc = "reading"
    /\ CASE outcome = "loaded" ->
              /\ pc' = "awaiting"
              /\ requests' = requests + 1
              /\ UNCHANGED <<isAnalyzing, error>>
         [] outcome = "empty" -> Rejected(<<ReadFailedMessage>>) /\ UNCHANGED requests
         [] outcome = "error" -> Rejected(<<>>) /\ UNCHANGED requests
    /\ UNCHANGED <<attempt, lastError, waitTime>>
    /\ UNCHANGED <<appVars, now, taxPercent, assignVars>>

\* The request succeeds: the receipt is returned and handed to App.
ResponseData(data) ==
    /\ pc = "awaiting"
    /\ HandleDataExtracted(WithIds(data, now))
    /\ isAnalyzing' = FALSE
    /\ pc' = "idle"
    /\ UNCHANGED <<error, attempt, lastError, requests, waitTime>>
    /\ UNCHANGED <<now, taxPercent, assignVars>>

\* Faulty variant: every delay lasts 2000 ms.
WaitTime_Constant(n) == 2000

\* waitTime = 2000 * Math.pow(2, attempt)
WaitTime(n) == 2000 * 2 ^ n

\* The request fails: the catch block waits and retries, or leaves the loop
\* and throws the friendly message.
ResponseError(e) ==
    /\ pc = "awaiting"
    /\ lastError' = <<e>>
    /\ IF IsTransient(e) /\ attempt < MAX_RETRIES - 1
       THEN /\ pc' = "backoff"
            /\ waitTime' = WaitTime(attempt)
            /\ UNCHANGED <<isAnalyzing, error>>
       ELSE Rejected(<<FriendlyMessage(<<e>>)>>) /\ UNCHANGED waitTime
    /\ UNCHANGED <<attempt, requests>>
    /\ UNCHANGED <<appVars, now, taxPercent, assignVars>>

\* The delay of 2000 * 2^attempt ms is over: the loop continues with the next
\* attempt.
BackoffElapsed ==
    /\ pc = "backoff"
    /\ attempt' = attempt + 1
    /\ IF attempt + 1 < MAX_RETRIES
       THEN /\ pc' = "awaiting"
            /\ requests' = requests + 1
            /\ UNCHANGED <<isAnalyzing, error>>
       ELSE Rejected(<<FriendlyMessage(lastError)>>) /\ UNCHANGED requests
    /\ waitTime' = 0
    /\ UNCHANGED lastError
    /\ UNCHANGED <<appVars, now, taxPercent, assignVars>>

\* The receipts the model answers with: no line or one line.
UploadedData == {data \in ExtractedData : Len(data.items) <= 1}

ResponseArrives ==
    \/ \E data \in UploadedData : ResponseData(data)
    \/ \E e \in ServiceErrors : ResponseError(e)

NextUpload ==
    \/ Tick
    \/ HandleFileChange
    \/ \E outcome \in FileReadOutcomes : FileRead(outcome)
    \/ ResponseArrives
    \/ BackoffElapsed

SpecUpload == Init /\ [][NextUpload]_vars

\* The file reader calls back, every request is answered or fails, and the
\* timer of the delay fires.
FairSpecUpload ==
    /\ SpecUpload
    /\ WF_vars(\E outcome \in FileReadOutcomes : FileRead(outcome))
    /\ WF_vars(ResponseArrives)
    /\ WF_vars(BackoffElapsed)

\* ======================================================== scaled extraction
\* The analyzeReceipt that corrects the unit scale: a subtotal below 1000 makes
\* every amount a thousand times larger, and a tax of at most 1 is taken as a
\* rate of the subtotal.

\* Math.round: the nearest integer, halves upwards.
MathRound(x) ==
    IF x = NaN THEN NaN ELSE Num((2 * x[1] + x[2]) \div (2 * x[2]))

\* x > 0 and x < bound for a number x and an integer bound; false for NaN.
IsPositive(x) == x # NaN /\ x[1] > 0
IsBelow(x, bound) == x # NaN /\ x[1] < bound * x[2]

Multiplier(data) ==
    LET checkSubtotal == OrElse(data.subtotal, Zero)
    IN  IF IsPositive(checkSubtotal) /\ IsBelow(checkSubtotal, 1000) THEN 1000 ELSE 1

FixPrice(val, multiplier) == FMul(OrElse(val, Zero), Num(multiplier))

FinalTax(data) ==
    LET finalTax == OrElse(data.tax, Zero)
    IN  IF IsPositive(finalTax) /\ ~IsBelow(<<-finalTax[1], finalTax[2]>>, -1)
        THEN MathRound(FMul(data.subtotal, finalTax))
        ELSE FixPrice(finalTax, Multiplier(data))

\* What analyzeReceipt returns for the parsed answer data at time t.
ScaledReceipt(data, t) ==
    [merchantName |-> data.merchantName, date |-> data.date,
     items |-> [i \in DOMAIN data.items |->
                   ReceiptItem(ItemId(i - 1, t), data.items[i].name,
                               FixPrice(data.items[i].price, Multiplier(data)),
                               data.items[i].quantity)],
     subtotal |-> FixPrice(data.subtotal, Multiplier(data)),
     totalDiscount |-> FixPrice(data.totalDiscount, Multiplier(data)),
     deliveryFee |-> FixPrice(data.deliveryFee, Multiplier(data)),
     serviceFee |-> FixPrice(data.serviceFee, Multiplier(data)),
     tax |-> FinalTax(data)]

\* The answers of the model: amounts in rupiah or in thousands, the tax as an
\* amount or as a rate.
AnswerSubtotals == {Num(0), Num(50), Num(999), Num(1000), Num(20000)}
AnswerTaxes == {Num(0), RoundRat(1, 10), RoundRat(11, 100), Num(1), Num(5), Num(2000)}

ModelAnswers ==
    {[merchantName |-> "Risol Mejik", date |-> "10 December 2025",
      items |-> <<[name |-> ItemNames[1], price |-> subtotal, quantity |-> 1]>>,
      subtotal |-> subtotal, totalDiscount |-> Num(0), deliveryFee |-> Num(4),
      serviceFee |-> Num(0), tax |-> tax] :
        subtotal \in AnswerSubtotals, tax \in AnswerTaxes}

\* The request succeeds: the corrected receipt is returned and handed to App.
ResponseScaled(data) ==
    /\ pc = "awaiting"
    /\ HandleDataExtracted(ScaledReceipt(data, now))
    /\ isAnalyzing' = FALSE
    /\ pc' = "idle"
    /\ UNCHANGED <<error, attempt, lastError, requests, waitTime>>
    /\ UNCHANGED <<now, taxPercent, assignVars>>

NextScaled ==
    \/ Tick
    \/ HandleFileChange
    \/ \E outcome \in FileReadOutcomes : FileRead(outcome)
    \/ \E data \in ModelAnswers : ResponseScaled(data)
    \/ \E e \in ServiceErrors : ResponseError(e)
    \/ BackoffElapsed

SpecScaled == Init /\ [][NextScaled]_vars

\* ====================================================================== App
\* The whole application: the upload with its extraction, then the wizard.
NextApp ==
    \/ HandleFileChange
    \/ \E outcome \in FileReadOutcomes : FileRead(outcome)
    \/ ResponseArrives
    \/ BackoffElapsed
    \/ MountVerifyStep
    \/ HandleVerified
    \/ AssignBack
    \/ AssignFinish
    \/ RenderResult
    \/ ResetApp

SpecApp == Init /\ [][NextApp]_vars

\* The file reader calls back, every request is answered or fails, and the
\* timer of the delay fires; nothing is assumed of the user.
FairSpecApp ==
    /\ SpecApp
    /\ WF_vars(\E outcome \in FileReadOutcomes : FileRead(outcome))
    /\ WF_vars(ResponseArrives)
    /\ WF_vars(BackoffElapsed)

\* ===================================================================== claims
\* Exact (unrounded) arithmetic on number pairs, for stating the claims.
ExactAdd(x, y) ==
    LET D == Max(x[2], y[2])
    IN  <<x[1] * (D \div x[2]) + y[1] * (D \div y[2]), D>>

ExactAbs(x) == <<Abs(x[1]), x[2]>>

RECURSIVE ExactSum(_)
ExactSum(xs) ==
    IF xs = <<>> THEN Zero ELSE ExactAdd(ExactSum(Tail(xs)), Head(xs))

\* x <= y for non-negative pairs, compared exactly.
ExactLeq(x, y) ==
    LET ix == x[1] \div x[2]
        iy == y[1] \div y[2]
        M  == Max(x[2], y[2])
    IN  IF ix # iy THEN ix < iy
        ELSE (x[1] % x[2]) * (M \div x[2]) <= (y[1] % y[2]) * (M \div y[2])

ExactEq(x, y) == x # NaN /\ y # NaN /\ ExactAdd(x, <<-y[1], y[2]>>)[1] = 0

Finite(seq) == \A i \in DOMAIN seq : seq[i] # NaN

\* |x - y| <= k * 2^(1 - MantBits) * |scale|: x and y agree up to k roundings
\* of values of the size of scale.
Within(x, y, k, scale) ==
    /\ x # NaN /\ y # NaN /\ scale # NaN
    /\ ExactLeq(ExactAbs(ExactAdd(x, <<-y[1], y[2]>>)),
                <<k * Abs(scale[1]), scale[2] * Pow2(MantBits - 1)>>)

\* The left-to-right floating-point sum of a sequence of numbers.
RECURSIVE FloatSum(_)
FloatSum(xs) ==
    IF xs = <<>> THEN Zero
    ELSE FAdd(FloatSum(SubSeq(xs, 1, Len(xs) - 1)), xs[Len(xs)])

Rendered == result # <<>>
Props == receiptData[1]
Rows == result[1].personResults
Column(rows, f) == [i \in 1..Len(rows) |-> rows[i][f]]
Prices(items) == [i \in 1..Len(items) |-> items[i].price]

\* The person ids that appear in the assignment list.
AssignedPersonIds == {assignments[i].personId : i \in DOMAIN assignments}

\* The items of the receipt that the assignment list gives to the person id.
ItemsOf(pid) ==
    SelectSeq(Props.items,
              LAMBDA it : \E i \in DOMAIN assignments :
                  assignments[i].itemId = it.id /\ assignments[i].personId = pid)

\* The divisor of spec 4.4 step 1.
Divisor ==
    LET sum == FloatSum(Prices(Props.items))
    IN  IF sum # Zero /\ sum # NaN THEN sum
        ELSE IF Props.subtotal # Zero /\ Props.subtotal # NaN THEN Props.subtotal
        ELSE Num(1)

\* The fee share of spec 4.4 step 3.
FeeShare ==
    IF AssignedPersonIds = {} THEN Zero
    ELSE FDiv(FAdd(Props.deliveryFee, Props.serviceFee), Num(Cardinality(AssignedPersonIds)))

\* The scenario of spec 8.7: A = 12000, B = 8000, discount 2000, tax 2000,
\* delivery fee 4000, service fee 0.
ScenarioReceipt ==
    /\ Prices(Props.items) = <<Num(12000), Num(8000)>>
    /\ Props.totalDiscount = Num(2000) /\ Props.tax = Num(2000)
    /\ Props.deliveryFee = Num(4000) /\ Props.serviceFee = Num(0)

ScenarioBothAssigned ==
    /\ ScenarioReceipt
    /\ Len(people) = 2
    /\ Range(assignments) = {Assignment(Props.items[1].id, people[1].id),
                             Assignment(Props.items[2].id, people[2].id)}

Amounts(row) == <<row.subtotal, row.discount, row.tax, row.fee, row.total>>

\* C1: every returned row has subtotal = the sum of the prices of the items
\* assigned to its person, discount = (subtotal / divisor) * totalDiscount,
\* tax = (subtotal / divisor) * tax, fee = the fee share, total = subtotal -
\* discount + tax + fee, and totalCalculated is the sum of the totals; in the
\* scenario A -> P1, B -> P2 the rows are (12000, 1200, 1200, 2000, 14000) and
\* (8000, 800, 800, 2000, 10000) and totalCalculated is 24000.
C1_AllocationFormulas ==
    Rendered =>
        /\ \A i \in DOMAIN Rows :
              LET r == Rows[i]
              IN  /\ r.subtotal = FloatSum(Prices(ItemsOf(r.person.id)))
                  /\ r.discount = FMul(FDiv(r.subtotal, Divisor), Props.totalDiscount)
                  /\ r.tax = FMul(FDiv(r.subtotal, Divisor), Props.tax)
                  /\ r.fee = FeeShare
                  /\ r.total = FAdd(FAdd(FSub(r.subtotal, r.discount), r.tax), r.fee)
        /\ result[1].totalCalculated = FloatSum(Column(Rows, "total"))
        /\ ScenarioBothAssigned =>
              /\ Len(Rows) = 2
              /\ Rows[1].person = people[1] /\ Rows[2].person = people[2]
              /\ Amounts(Rows[1]) =
                    <<Num(12000), Num(1200), Num(1200), Num(2000), Num(14000)>>
              /\ Amounts(Rows[2]) =
                    <<Num(8000), Num(800), Num(800), Num(2000), Num(10000)>>
              /\ result[1].totalCalculated = Num(24000)

\* C1 witness: the scenario of spec 8.7 has been rendered.
C1_Witness == Rendered /\ ScenarioBothAssigned /\ Len(Rows) = 2

\* Every item of the receipt has an entry in the assignment list.
EveryItemAssigned ==
    \A i \in DOMAIN Props.items :
        \E j \in DOMAIN assignments : assignments[j].itemId = Props.items[i].id

\* Every person id of the assignment list is the id of a person of the people list.
AssigneesListed == AssignedPersonIds \subseteq {people[i].id : i \in DOMAIN people}

Positive(x) == x # NaN /\ x[1] > 0

\* Every entry of the assignment list is for an item of the receipt.
AssignedItemsInReceipt ==
    \A j \in DOMAIN assignments :
        \E i \in DOMAIN Props.items : Props.items[i].id = assignments[j].itemId

\* C2 as stated, on the inputs the assign step can hand over (a non-empty
\* receipt with a subtotal, every entry for an item of the receipt and a person
\* of the list): whenever every item is assigned and the divisor is positive,
\* the subtotals of the rows add up to the divisor.
C2_Original ==
    Rendered /\ EveryItemAssigned /\ AssigneesListed /\ AssignedItemsInReceipt
             /\ Props.items # <<>> /\ Props.subtotal # NaN
             /\ Positive(Divisor) =>
        ExactEq(ExactSum(Column(Rows, "subtotal")), Divisor)

\* C2 amended: whenever every item is assigned to a person of the people list
\* and the sum of the item prices is positive, the subtotals of the rows add
\* up to the sum of the item prices, up to the rounding of the additions.
C2_SubtotalsCoverItems ==
    Rendered /\ EveryItemAssigned /\ AssigneesListed
             /\ Positive(FloatSum(Prices(Props.items))) =>
        Within(ExactSum(Column(Rows, "subtotal")), FloatSum(Prices(Props.items)),
               Len(Props.items) + 1,
               ExactSum([i \in DOMAIN Props.items |-> ExactAbs(Props.items[i].price)]))

\* C2 witness: two persons share a fully assigned receipt of two priced items.
C2_Witness ==
    /\ Rendered /\ EveryItemAssigned /\ AssigneesListed
    /\ Len(Props.items) = 2 /\ Len(Rows) = 2
    /\ \A i \in 1..2 : Positive(Rows[i].subtotal)

\* C3 as stated: with at least one active person the fees of the rows add up
\* to deliveryFee + serviceFee.
C3_Original ==
    Rendered /\ AssignedPersonIds # {} =>
        ExactEq(ExactSum(Column(Rows, "fee")),
                ExactAdd(Props.deliveryFee, Props.serviceFee))

\* C3 amended: when every person id of the assignments is the id of a listed
\* person and there is at least one, the fees of the rows add up to
\* deliveryFee + serviceFee up to the rounding of the sum and the division;
\* with no active person the fee share is 0, there is no row, and no fee is
\* the outcome of a division by zero.
C3_FeesSplitEqually ==
    Rendered =>
        /\ AssignedPersonIds # {} /\ AssigneesListed =>
              Within(ExactSum(Column(Rows, "fee")),
                     ExactAdd(Props.deliveryFee, Props.serviceFee), 2,
                     ExactAdd(Props.deliveryFee, Props.serviceFee))
        /\ AssignedPersonIds = {} =>
              FeePerPerson(Props, assignments) = Zero /\ Rows = <<>>
        /\ Finite(Column(Rows, "fee"))

\* C3 witness: two active persons, both listed, each charged half of the fees.
C3_Witness ==
    /\ Rendered /\ AssigneesListed /\ Cardinality(AssignedPersonIds) = 2
    /\ Len(Rows) = 2 /\ Positive(Rows[1].fee)

ScenarioOneUnassigned ==
    /\ ScenarioReceipt
    /\ Len(assignments) = 1
    /\ assignments[1].itemId = Props.items[1].id
    /\ \E i \in DOMAIN people : people[i].id = assignments[1].personId

\* C4: an item without assignment counts in the divisor and in no row: with
\* A -> P1 and B unassigned the only row is P1 = (12000, 1200, 1200, 4000, 16000).
C4_UnassignedDilutes ==
    Rendered =>
        /\ Positive(FloatSum(Prices(Props.items))) =>
              EffectiveSubtotal(Props) = FloatSum(Prices(Props.items))
        /\ \A i \in DOMAIN Rows : Rows[i].items = ItemsOf(Rows[i].person.id)
        /\ ScenarioOneUnassigned =>
              /\ Len(Rows) = 1
              /\ Rows[1].person.id = assignments[1].personId
              /\ Amounts(Rows[1]) =
                    <<Num(12000), Num(1200), Num(1200), Num(4000), Num(16000)>>

\* C4 witness: the scenario of spec 8.8 has been rendered.
C4_Witness == Rendered /\ ScenarioOneUnassigned /\ Len(Rows) = 1

\* C5: with an empty people list, or with no active person, the rendered
\* result is no row and totalCalculated = 0 (a number, not the outcome of a
\* failed computation).
C5_NoPeopleNoRows ==
    Rendered /\ (people = <<>> \/ AssignedPersonIds = {}) =>
        result[1] = [personResults |-> <<>>, totalCalculated |-> Zero]

\* C5 witness: rendered with an empty people list and a non-empty assignment
\* list over a non-empty receipt.
C5_Witness ==
    Rendered /\ people = <<>> /\ assignments # <<>> /\ Props.items # <<>>

\* C6: the divisor is the sum of the item prices, else receipt.subtotal, else
\* 1; it is never 0, and no amount of a row is the outcome of a division by 0.
C6_DivisorNeverZero ==
    Rendered =>
        /\ EffectiveSubtotal(Props) = Divisor
        /\ Truthy(EffectiveSubtotal(Props))
        /\ \A i \in DOMAIN Rows : Finite(Amounts(Rows[i]))

\* C6 witness: a row computed with the divisor 1 (item prices and subtotal 0
\* or absent).
C6_Witness ==
    /\ Rendered /\ Rows # <<>> /\ Rows[1].items # <<>>
    /\ FloatSum(Prices(Props.items)) = Zero
    /\ ~Truthy(Props.subtotal)

Reorderings(seq) ==
    {[i \in DOMAIN seq |-> seq[f[i]]] : f \in Permutations(DOMAIN seq)}

\* C8: every permutation of the assignment list yields the same person
\* results and the same totalCalculated.
C8_OrderIndependent ==
    Rendered =>
        \A q \in Reorderings(assignments) : Result(Props, people, q) = result[1]

\* C8 witness: one person holds two items, listed in the reverse of the item
\* order, and has a row.
C8_Witness ==
    /\ Rendered /\ Len(assignments) = 2 /\ Len(Props.items) = 2
    /\ assignments[1].itemId = Props.items[2].id
    /\ assignments[1].personId = assignments[2].personId
    /\ Len(Rows) = 1 /\ Len(Rows[1].items) = 2

\* ------------------------------------------------------------- explosion claims
\* VerifyStep has mounted and its explosion effect has run; its initialData is
\* the receipt held by App.
VerifyShown == step = "verify" /\ receiptData # <<>> /\ verifyData # <<>>
InitialItems == receiptData[1].items
AllUnit(items) == \A i \in DOMAIN items : items[i].quantity = 1

\* An entry that an earlier explosion emitted: its id ends in the entry index.
Exploded(item) ==
    \E j \in 0..(MaxItems - 1), i \in 0..(MaxUnits - 1) :
        item.id = ItemId(j, 0) \o "-" \o ToString(i)

\* C9: the explosion run on an item list in which every quantity is 1 (as when
\* the verify step is entered again with verified data) gives the identical
\* list - same order, ids, names and prices - and VerifyStep keeps its data.
C9_ExplosionIdempotent ==
    VerifyShown /\ AllUnit(InitialItems) =>
        /\ ExplodedItems(InitialItems) = InitialItems
        /\ VerifyStep(receiptData[1]) = receiptData[1]

\* C9 witness: the verify step has been entered again with exploded, verified
\* data, has mounted, and shows the very same items.
C9_Witness ==
    /\ VerifyShown
    /\ Len(InitialItems) > 1
    /\ AllUnit(InitialItems)
    /\ \A i \in DOMAIN InitialItems : Exploded(InitialItems[i])
    /\ verifyData[1].items = InitialItems

\* The sum of the prices of the entries emitted for one item.
EmittedSum(item) == FloatSum(Prices(ExplodeItem(item)))

\* C10 as stated: for every item the prices of the emitted entries sum to the
\* item's price exactly, and the sum of all item prices is the same before and
\* after the explosion.
C10_Original ==
    VerifyShown =>
        /\ \A i \in DOMAIN InitialItems : EmittedSum(InitialItems[i]) = InitialItems[i].price
        /\ FloatSum(Prices(ExplodedItems(InitialItems))) = FloatSum(Prices(InitialItems))

\* C10: for every item of quantity N the item gives N entries (one when N < 2)
\* whose prices sum to the item's price up to N floating-point roundings, and
\* the sum of all item prices after the explosion agrees with the sum before
\* it up to one rounding per emitted entry.
C10_ExplosionConservesPrice ==
    VerifyShown =>
        /\ \A i \in DOMAIN InitialItems :
              LET item == InitialItems[i]
              IN  /\ Len(ExplodeItem(item)) = Max(item.quantity, 1)
                  /\ Within(EmittedSum(item), item.price, Max(item.quantity, 1), item.price)
        /\ LET before == FloatSum(Prices(InitialItems))
               after  == ExplodedItems(InitialItems)
           IN  Within(FloatSum(Prices(after)), before, Len(after), before)

\* C10 witness: VerifyStep has mounted with an item of quantity above 1 and
\* shows the exploded entries in its place.
C10_Witness ==
    /\ VerifyShown
    /\ \E i \in DOMAIN InitialItems : InitialItems[i].quantity > 1
    /\ verifyData[1].items = ExplodedItems(InitialItems)
    /\ Len(verifyData[1].items) > Len(InitialItems)

\* The number of entries the explosion emits for an item.
EntryCount(item) == IF item.quantity > 1 THEN item.quantity ELSE 1

\* The number of entries emitted for the items before position i.
RECURSIVE Offset(_, _)
Offset(items, i) ==
    IF i = 1 THEN 0 ELSE Offset(items, i - 1) + EntryCount(items[i - 1])

\* C11: after the explosion the list holds, at the place of every item of
\* quantity N > 1, N consecutive entries of quantity 1, price = price / N,
\* id = the item's id followed by "-" and the entry index, name = the item's
\* name followed by " (k/N)", k = 1..N; an item of quantity 1 is there unchanged.
C11_ExplosionEmitsUnits ==
    VerifyShown =>
        LET out == verifyData[1].items
        IN  /\ Len(out) = Offset(InitialItems, Len(InitialItems) + 1)
            /\ \A i \in DOMAIN InitialItems :
                  LET item == InitialItems[i]
                      o == Offset(InitialItems, i)
                      N == item.quantity
                  IN  /\ N > 1 =>
                          \A k \in 1..N :
                              out[o + k] =
                                  [id |-> item.id \o "-" \o ToString(k - 1),
                                   name |-> item.name \o " (" \o ToString(k) \o "/"
                                                      \o ToString(N) \o ")",
                                   price |-> FDiv(item.price, Num(N)),
                                   quantity |-> 1]
                      /\ N = 1 => out[o + 1] = item

\* C11 witness: VerifyStep has mounted with an item of quantity 1 followed by
\* an item of quantity above 2 and shows one entry and then the unit entries.
C11_Witness ==
    /\ VerifyShown
    /\ Len(InitialItems) = 2
    /\ InitialItems[1].quantity = 1 /\ InitialItems[2].quantity > 2
    /\ Len(verifyData[1].items) = 1 + InitialItems[2].quantity
    /\ verifyData[1].items[1] = InitialItems[1]

\* ------------------------------------------------------------ VerifyStep claims
\* C12 as stated: for an item whose quantity is 0 or whose price is absent the
\* explosion gives one entry of quantity 1 and price 0.
C12_Original ==
    VerifyShown =>
        \A i \in DOMAIN InitialItems :
            InitialItems[i].quantity = 0 \/ InitialItems[i].price = NaN =>
                LET out == ExplodeItem(InitialItems[i])
                IN  Len(out) = 1 /\ out[1].quantity = 1 /\ out[1].price = Zero

DistinctIds(items) ==
    \A i, j \in DOMAIN items : i # j => items[i].id # items[j].id

\* C13 as stated: whatever the user adds, edits and deletes in the verify
\* step, no two items of the list share an id.
C13_ItemIdsUnique ==
    step = "verify" /\ verifyData # <<>> => DistinctIds(verifyData[1].items)

\* ------------------------------------------------------------ AssignStep claims
AssignShown == step = "assign" /\ receiptData # <<>>

KeysDistinct(map) ==
    \A i, j \in DOMAIN map : i # j => map[i][1] # map[j][1]

\* C14: the record never holds two entries for one item id, and choosing a
\* person for an item sets the entry of that item, whether or not it had one,
\* and leaves the entry of every other item as it was.
C14_OnePersonPerItem ==
    /\ [](KeysDistinct(assignMap))
    /\ [][\A itemId \in ItemIdPool, personId \in PersonIdPool :
             HandleAssign(itemId, personId) =>
                 /\ Lookup(assignMap', itemId) = <<personId>>
                 /\ \A other \in ItemIdPool \ {itemId} :
                        Lookup(assignMap', other) = Lookup(assignMap, other)]_vars

\* C14 witness: two items have an entry each, for two different persons.
C14_Witness ==
    /\ AssignShown /\ Len(assignMap) = 2
    /\ assignMap[1][2] # "" /\ assignMap[2][2] # ""
    /\ assignMap[1][2] # assignMap[2][2]

\* C15 as stated: removing a person takes that one person out of the list and
\* every entry whose value is the person's id out of the record; every other
\* person and every other entry stays.
C15_RemoveOnlyThatPerson ==
    [][\A id \in PersonIdPool :
          RemovePerson(id) =>
              /\ \E k \in DOMAIN assignPeople :
                    /\ assignPeople[k].id = id
                    /\ assignPeople' = SubSeq(assignPeople, 1, k - 1)
                                          \o SubSeq(assignPeople, k + 1, Len(assignPeople))
              /\ assignMap' = SelectSeq(assignMap, LAMBDA e : e[2] # id)]_vars

\* C16 as stated: isComplete holds exactly when every item id of the receipt
\* has an entry in the record.
C16_Original ==
    AssignShown =>
        (IsComplete(receiptData[1], assignMap) <=>
            \A i \in DOMAIN receiptData[1].items :
                Lookup(assignMap, receiptData[1].items[i].id) # <<>>)

\* C16: isComplete holds exactly when every item id of the receipt has an
\* entry whose value is the id of a person of the list (an entry left by the
\* empty choice does not count), and the finish button is disabled exactly
\* when isComplete is false.
C16_CompleteIffAllChosen ==
    AssignShown =>
        /\ IsComplete(receiptData[1], assignMap) <=>
              \A i \in DOMAIN receiptData[1].items :
                  \E e \in Range(assignMap), p \in Range(assignPeople) :
                      e = <<receiptData[1].items[i].id, p.id>>
        /\ FinishDisabled <=> ~IsComplete(receiptData[1], assignMap)

\* C16 witness: of two items one has a person and the other an entry left by
\* the empty choice, and the finish button is disabled.
C16_Witness ==
    /\ AssignShown /\ Len(receiptData[1].items) = 2 /\ Len(assignMap) = 2
    /\ \E e \in Range(assignMap) : e[2] = ""
    /\ \E e \in Range(assignMap) : e[2] # ""
    /\ FinishDisabled

\* ---------------------------------------------------------------------- C17
\* A number is one with at most two decimals when it is the number a literal
\* with two fraction digits denotes.
TwoDecimals(x) == x # NaN /\ x[1] >= 0 /\ x = RoundRat(Cents(x), 100)

ShownAmounts ==
    {verifyData[1].items[i].price : i \in DOMAIN verifyData[1].items}
        \cup {verifyData[1].totalDiscount}

\* The spec's example in exact arithmetic: 15000.75 = 60003/4.
FifteenThousand == <<60003, 4>>

\* C17: for every non-negative amount x with at most two decimals,
\* parseThousands(formatThousands(x)) = x; 15000.75 is shown as "15.000,75",
\* which is read back as 15000.75.
C17_CurrencyRoundTrip ==
    /\ VerifyShown =>
          \A x \in ShownAmounts :
              TwoDecimals(x) => ParseThousands(FormatThousands(x)) = x
    /\ FormatThousands(FifteenThousand) = <<"1", "5", ".", "0", "0", "0", ",", "7", "5">>
    /\ \E lit \in {DecimalLiteral(Clean(FormatThousands(FifteenThousand)))} :
          /\ lit # <<>>
          /\ lit[1][1] * FifteenThousand[2] = FifteenThousand[1] * lit[1][2]

\* A typed price with a fraction and a discount with a thousands separator.
C17_Witness ==
    /\ VerifyShown
    /\ verifyData[1].items # <<>>
    /\ verifyData[1].items[1].price = RoundRat(55, 100)
    /\ FormatThousands(verifyData[1].items[1].price) = <<"0", ",", "5", "5">>
    /\ verifyData[1].totalDiscount = Num(2004)
    /\ FormatThousands(verifyData[1].totalDiscount) = <<"2", ".", "0", "0", "4">>

C19_UnreadableFileNoRequest ==
    /\ [](pc = "reading" => requests = 0)
    /\ [][\A outcome \in {"empty", "error"} :
             FileRead(outcome) =>
                 /\ requests' = 0
                 /\ attempt' = 0
                 /\ pc' = "idle"
                 /\ ~isAnalyzing'
                 /\ error' \in {<<ReadFailedMessage>>, <<GenericMessage>>}]_vars

\* The file reader failed and the generic text is shown.
C19_Witness ==
    /\ pc = "idle"
    /\ step = "upload"
    /\ error = <<GenericMessage>>
    /\ requests = 0

\* ---------------------------------------------------------------------- C20
\* C20: when all 3 attempts fail as unavailable, the error shown is the
\* localized friendly message, not the text of the service's error.
C20_Original ==
    (/\ pc = "idle"
     /\ error # <<>>
     /\ requests = MAX_RETRIES
     /\ lastError # <<>>
     /\ lastError[1] \in UnavailableErrors)
        => error = <<DefaultMessage>>

\* ---------------------------------------------------------------------- C21
\* C21: a response that is not JSON is never returned as a receipt, is not
\* retried, and the message shown is the generic failure message.
C21_Original ==
    (lastError = <<NotJson>>) =>
        /\ pc = "idle"
        /\ step = "upload"
        /\ receiptData = <<>>
        /\ error \in {<<GenericMessage>>, <<DefaultMessage>>}

\* ---------------------------------------------------------------------- C22
\* C22: after a failed extraction the application is still at the upload
\* step; the busy flag is always cleared again, and then a new upload can be
\* started; starting an upload clears the error shown; and in every state the
\* reset leads to the upload step.
C22_NoUnrecoverableState ==
    /\ [][(isAnalyzing /\ ~isAnalyzing' /\ error' # <<>>) => step' = "upload"]_vars
    /\ isAnalyzing ~> ~isAnalyzing
    /\ []((step = "upload" /\ ~isAnalyzing) => ENABLED HandleFileChange)
    /\ [][HandleFileChange => (isAnalyzing' /\ error' = <<>>)]_vars
    /\ [](ENABLED ResetApp)
    /\ [][ResetApp => step' = "upload"]_vars

\* An extraction has failed after a retry: the error is shown at the upload
\* step and the busy flag is cleared.
C22_Witness ==
    /\ step = "upload"
    /\ ~isAnalyzing
    /\ error # <<>>
    /\ requests = 2
    /\ lastError # <<>>

\* ---------------------------------------------------------------------- C23
\* A tax the model returned as a rate: 0 < r <= 1.
IsRate(r) == IsPositive(r) /\ r[1] <= r[2]

\* C23: when the model returns the tax as a rate r, the tax of the returned
\* receipt is r times the returned subtotal, rounded to an integer, and is
\* not the rate itself.
C23_Original ==
    [][\A data \in ModelAnswers :
          (ResponseScaled(data) /\ IsRate(data.tax) /\ IsPositive(data.subtotal)) =>
              /\ receiptData'[1].tax =
                     MathRound(FMul(data.tax, receiptData'[1].subtotal))
              /\ receiptData'[1].tax # data.tax]_vars

\* ---------------------------------------------------------------------- C24
\* C24: the busy flag is set exactly while an extraction is under way and no
\* upload starts meanwhile; a receipt reaches App only at the end of an
\* extraction, and every extraction ends in exactly one of: the receipt handed
\* to App, or an error shown.
C24_OneExtractionInFlight ==
    /\ [](isAnalyzing <=> pc # "idle")
    /\ [][pc' = "reading" => pc \in {"idle", "reading"}]_vars
    /\ [][HandleFileChange => ~isAnalyzing]_vars
    /\ [][(step = "upload" /\ receiptData' # receiptData) =>
             (isAnalyzing /\ ~isAnalyzing')]_vars
    /\ [][(isAnalyzing /\ ~isAnalyzing') =>
             \/ /\ step' = "verify" /\ receiptData' # <<>> /\ receiptData = <<>>
                /\ error' = <<>>
             \/ /\ error' # <<>>
                /\ UNCHANGED <<step, receiptData>>]_vars

\* A second request of an upload is pending while the input is disabled.
C24_Witness ==
    /\ step = "upload"
    /\ isAnalyzing
    /\ pc = "awaiting"
    /\ requests = 2

\* ---------------------------------------------------------------------- C25
\* Every item of the receipt is given, by an entry of the assignment list, to
\* a person of the people list.
EveryItemGivenToListed ==
    \A i \in DOMAIN Props.items :
        \E j \in DOMAIN assignments, k \in DOMAIN people :
            /\ assignments[j].itemId = Props.items[i].id
            /\ assignments[j].personId = people[k].id

\* (sum of the item prices) - totalDiscount + tax + deliveryFee + serviceFee
GrandTotal ==
    ExactAdd(ExactAdd(ExactSum(Prices(Props.items)),
                      <<-Props.totalDiscount[1], Props.totalDiscount[2]>>),
             ExactAdd(Props.tax, ExactAdd(Props.deliveryFee, Props.serviceFee)))

\* The size of the amounts that are added up for the grand total.
GrandScale ==
    ExactSum(<<ExactSum(Prices(Props.items)), ExactAbs(Props.totalDiscount),
               ExactAbs(Props.tax), ExactAbs(Props.deliveryFee), ExactAbs(Props.serviceFee)>>)

\* C25 as stated: when every item is assigned to a listed person and the item
\* prices do not sum to 0, the discounts of the rows add up to totalDiscount,
\* the taxes to tax, and totalCalculated is the grand total.
C25_Original ==
    Rendered /\ EveryItemGivenToListed /\ Truthy(FloatSum(Prices(Props.items))) =>
        /\ ExactEq(ExactSum(Column(Rows, "discount")), Props.totalDiscount)
        /\ ExactEq(ExactSum(Column(Rows, "tax")), Props.tax)
        /\ ExactEq(result[1].totalCalculated, GrandTotal)

\* C25 amended: when moreover every person id of the assignment list is the id
\* of a listed person, the three equalities hold up to the rounding of the
\* divisions, products and additions.
C25_SharesAddUp ==
    Rendered /\ EveryItemGivenToListed /\ AssigneesListed
             /\ Truthy(FloatSum(Prices(Props.items))) =>
        /\ Within(ExactSum(Column(Rows, "discount")), Props.totalDiscount,
                  2, Props.totalDiscount)
        /\ Within(ExactSum(Column(Rows, "tax")), Props.tax, 2, Props.tax)
        /\ Within(result[1].totalCalculated, GrandTotal,
                  2 * (Len(Rows) + 3), GrandScale)

\* Two persons share a fully assigned receipt with a discount and a tax.
C25_Witness ==
    /\ Rendered /\ EveryItemGivenToListed /\ AssigneesListed
    /\ Len(Props.items) = 2 /\ Len(Rows) = 2
    /\ \A i \in 1..2 : Positive(Rows[i].discount) /\ Positive(Rows[i].tax)
    /\ Prices(Props.items) = <<Num(8000), Num(12000)>>

\* ---------------------------------------------------------------------- C26
\* The entries of App's assignment list for the item id.
EntriesOf(itemId) == {j \in DOMAIN assignments : assignments[j].itemId = itemId}

\* C26: at the result step every item of the receipt has exactly one
\* assignment entry, whose person id is not empty and is the id of a person of
\* App's people list; every entry is for an item of the receipt and names a
\* person of that list.
C26_ResultAssignmentsSound ==
    (step = "result" /\ receiptData # <<>>) =>
        /\ \A i \in DOMAIN Props.items :
              /\ Cardinality(EntriesOf(Props.items[i].id)) = 1
              /\ \A j \in EntriesOf(Props.items[i].id) :
                    /\ assignments[j].personId # ""
                    /\ \E k \in DOMAIN people : people[k].id = assignments[j].personId
        /\ \A j \in DOMAIN assignments :
              /\ \E i \in DOMAIN Props.items : Props.items[i].id = assignments[j].itemId
              /\ \E k \in DOMAIN people : people[k].id = assignments[j].personId

\* The finish button was pressed with two items given to two persons.
C26_Witness ==
    /\ step = "result"
    /\ receiptData # <<>>
    /\ Len(Props.items) = 2
    /\ Len(assignments) = 2
    /\ Len(people) = 2
    /\ assignments[1].personId # assignments[2].personId
    /\ assignPeople = people

\* ---------------------------------------------------------------------- C27
\* The moves of the wizard step.
StepMoves ==
    {<<"upload", "verify">>, <<"verify", "assign">>, <<"assign", "result">>,
     <<"assign", "verify">>}

\* C27: the step moves only along upload -> verify (with the extracted
\* receipt), verify -> assign, assign -> result, assign -> verify, or to upload
\* by the reset; the receipt is present at the verify, assign and result steps;
\* after a reset the receipt is absent and the people and assignment lists are
\* empty.
C27_StepOrder ==
    /\ [][step' # step =>
             \/ <<step, step'>> \in StepMoves /\ receiptData' # <<>>
             \/ step' = "upload" /\ ResetApp]_vars
    /\ [][(step = "upload" /\ step' = "verify") => (isAnalyzing /\ ~isAnalyzing')]_vars
    /\ [](step \in {"verify", "assign", "result"} => receiptData # <<>>)
    /\ [][ResetApp =>
             /\ step' = "upload" /\ receiptData' = <<>>
             /\ people' = <<>> /\ assignments' = <<>>]_vars

\* A receipt was extracted and the application was reset afterwards.
C27_Witness ==
    /\ step = "upload"
    /\ receiptData = <<>> /\ people = <<>> /\ assignments = <<>>
    /\ ~isAnalyzing /\ pc = "idle" /\ error = <<>>
    /\ requests > 0

LessThan(x, y) ==
    x # NaN /\ y # NaN /\ FSub(x, y) # NaN /\ FSub(x, y)[1] < 0

\* parseFloat(p.toFixed(2)): p to two decimals, halves upwards.
ToFixed2(p) ==
    IF p = NaN THEN NaN ELSE RoundRat((200 * p[1] + p[2]) \div (2 * p[2]), 100)

\* (percent / 100) * subtotal
PercentOf(percent, subtotal) == FMul(FDiv(percent, Num(100)), subtotal)

\* The first effect: taxPercent after mounting with initialData.
InitialTaxPercent(initialData) ==
    IF IsPositive(initialData.tax) /\ IsPositive(initialData.subtotal)
    THEN LET p == FMul(FDiv(initialData.tax, initialData.subtotal), Num(100))
         IN  IF LessThan(ExactAbs(FSub(p, Num(10))), RoundRat(1, 2)) THEN Num(10)
             ELSE IF LessThan(ExactAbs(FSub(p, Num(11))), RoundRat(1, 2)) THEN Num(11)
             ELSE ToFixed2(p)
    ELSE Zero

\* The receipts this VerifyStep is mounted with; the subtotal of the receipt
\* may be absent (0) or differ from the sum of the lines.
PercentSubtotals == {Zero, Num(10000), Num(20000)}
PercentTaxes == {Zero, Num(2000)}

PercentInitialData ==
    {[merchantName |-> "Risol Mejik", date |-> "10 December 2025",
      items |-> <<ReceiptItem(ItemId(0, 0), ItemNames[1], Num(10000), quantity)>>,
      subtotal |-> subtotal, totalDiscount |-> Num(2000), tax |-> tax,
      deliveryFee |-> Num(4000), serviceFee |-> Num(1000)] :
        quantity \in {1, 2}, subtotal \in PercentSubtotals, tax \in PercentTaxes}

InitPercent ==
    /\ step = "verify"
    /\ receiptData \in {<<d>> : d \in PercentInitialData}
    /\ people = <<>>
    /\ assignments = <<>>
    /\ verifyData = <<>>
    /\ result = <<>>
    /\ now = 0
    /\ taxPercent = Zero
    /\ assignPeople = <<>> /\ assignMap = <<>>
    /\ isAnalyzing = FALSE /\ error = <<>> /\ pc = "idle"
    /\ attempt = 0 /\ lastError = <<>> /\ requests = 0 /\ waitTime = 0

\* Mounting: useState(initialData), useState(0), then the two effects.
MountPercentVerifyStep ==
    /\ step = "verify"
    /\ receiptData # <<>>
    /\ verifyData = <<>>
    /\ verifyData' = <<VerifyStep(receiptData[1])>>
    /\ taxPercent' = InitialTaxPercent(receiptData[1])
    /\ UNCHANGED <<step, receiptData, people, assignments, result>>
    /\ UNCHANGED <<now, assignVars, uploadVars>>

\* The percentage input reports the text val.
HandleTaxPercentChange(val) ==
    /\ step = "verify"
    /\ verifyData # <<>>
    /\ LET p == OrElse(ParseFloat(val), Zero)
       IN  /\ taxPercent' = p
           /\ verifyData' = <<[verifyData[1] EXCEPT
                                 !.tax = PercentOf(p, verifyData[1].subtotal)]>>
    /\ UNCHANGED <<step, receiptData, people, assignments, result>>
    /\ UNCHANGED <<now, assignVars, uploadVars>>

\* handleUpdateItem of this VerifyStep: the field of the item at index is
\* replaced, the subtotal becomes the sum of the prices and the tax the
\* percentage of that sum.
PercentHandleUpdateItem(index, field, value) ==
    /\ step = "verify"
    /\ verifyData # <<>>
    /\ index \in DOMAIN verifyData[1].items
    /\ LET newItems == [verifyData[1].items EXCEPT ![index][field] = value]
           newSubtotal == SumPrices(newItems)
           newTax == PercentOf(taxPercent, newSubtotal)
       IN  verifyData' = <<[verifyData[1] EXCEPT !.items = newItems,
                                                 !.subtotal = newSubtotal,
                                                 !.tax = newTax]>>
    /\ UNCHANGED <<step, receiptData, people, assignments, result>>
    /\ UNCHANGED <<now, taxPercent, assignVars, uploadVars>>

\* The delete button of the item at index.
PercentDeleteItem(index) ==
    /\ step = "verify"
    /\ verifyData # <<>>
    /\ index \in DOMAIN verifyData[1].items
    /\ LET old == verifyData[1].items
           items == SubSeq(old, 1, index - 1) \o SubSeq(old, index + 1, Len(old))
           sub == SumPrices(items)
       IN  verifyData' = <<[verifyData[1] EXCEPT !.items = items,
                                                 !.subtotal = sub,
                                                 !.tax = PercentOf(taxPercent, sub)]>>
    /\ UNCHANGED <<step, receiptData, people, assignments, result>>
    /\ UNCHANGED <<now, taxPercent, assignVars, uploadVars>>

\* The add button: an empty item of price 0, nothing else.
PercentAddItem ==
    /\ step = "verify"
    /\ verifyData # <<>>
    /\ Len(verifyData[1].items) < MaxItems
    /\ verifyData' = <<[verifyData[1] EXCEPT !.items =
                          Append(verifyData[1].items,
                                 ReceiptItem(ToString(now), "", Num(0), 1))]>>
    /\ UNCHANGED <<step, receiptData, people, assignments, result>>
    /\ UNCHANGED <<now, taxPercent, assignVars, uploadVars>>

\* The nominal tax input reports the text val: the tax is stored, and the
\* percentage follows only while the subtotal is positive.
HandleTaxNominalChange(val) ==
    /\ step = "verify"
    /\ verifyData # <<>>
    /\ LET nominal == ParseThousands(val)
           subtotal == verifyData[1].subtotal
       IN  /\ verifyData' = <<[verifyData[1] EXCEPT !.tax = nominal]>>
           /\ taxPercent' = IF IsPositive(subtotal)
                            THEN ToFixed2(FMul(FDiv(nominal, subtotal), Num(100)))
                            ELSE taxPercent
    /\ UNCHANGED <<step, receiptData, people, assignments, result>>
    /\ UNCHANGED <<now, assignVars, uploadVars>>

\* The fee input of this VerifyStep reports the text val.
PercentHandleFeeChange(val) ==
    /\ step = "verify"
    /\ verifyData # <<>>
    /\ verifyData' = <<[verifyData[1] EXCEPT !.deliveryFee = ParseThousands(val),
                                             !.serviceFee = Zero]>>
    /\ UNCHANGED <<step, receiptData, people, assignments, result>>
    /\ UNCHANGED <<now, taxPercent, assignVars, uploadVars>>

\* The texts typed into the percentage, nominal tax and fee inputs.
PercentTexts == {<<"1", "0">>, <<>>}
NominalTexts == {<<"2", ".", "0", "0", "0">>, <<"0">>}
FeeTexts == {<<"5", ".", "0", "0", "0">>}

NextPercent ==
    \/ MountPercentVerifyStep
    \/ \E val \in PercentTexts : HandleTaxPercentChange(val)
    \/ \E index \in 1..MaxItems : PercentHandleUpdateItem(index, "name", "Es Jeruk")
    \/ \E index \in 1..MaxItems : PercentHandleUpdateItem(index, "price", Num(8000))
    \/ \E index \in 1..MaxItems : PercentDeleteItem(index)
    \/ PercentAddItem
    \/ \E val \in NominalTexts : HandleTaxNominalChange(val)
    \/ \E val \in FeeTexts : PercentHandleFeeChange(val)

SpecPercent == InitPercent /\ [][NextPercent]_vars

\* ---------------------------------------------------------------------- C29
\* C29: in the VerifyStep with the tax percentage, editing the name of an item
\* changes that name only: the prices, subtotal, tax, totalDiscount,
\* deliveryFee and serviceFee stay as they were, also when a nominal tax was
\* entered while the subtotal was 0.
C29_Original ==
    [][\A index \in 1..MaxItems :
          PercentHandleUpdateItem(index, "name", "Es Jeruk") =>
              /\ Prices(verifyData'[1].items) = Prices(verifyData[1].items)
              /\ verifyData'[1].subtotal = verifyData[1].subtotal
              /\ verifyData'[1].tax = verifyData[1].tax
              /\ verifyData'[1].totalDiscount = verifyData[1].totalDiscount
              /\ verifyData'[1].deliveryFee = verifyData[1].deliveryFee
              /\ verifyData'[1].serviceFee = verifyData[1].serviceFee]_vars

\* ======================================================= the fee field
\* The combined fee input of VerifyStep, followed through the rest of the
\* wizard: the edited receipt is confirmed, its items are given to people and
\* the result is rendered.

\* What the fee input shows: formatThousands(deliveryFee + serviceFee + tax).
FeeShown(data) ==
    FormatThousands(FAdd(FAdd(data.deliveryFee, data.serviceFee), data.tax))

\* Faulty variant: the tax is left as it was.
HandleFeeChange_TaxKept(text) ==
    /\ step = "verify"
    /\ verifyData # <<>>
    /\ verifyData' = <<[verifyData[1] EXCEPT !.deliveryFee = ParseThousands(text),
                                             !.serviceFee = Zero]>>
    /\ UNCHANGED <<step, receiptData, people, assignments, result>>
    /\ UNCHANGED <<now, taxPercent, assignVars, uploadVars>>

\* The onChange of the fee input for the reported text.
HandleFeeChange(text) ==
    /\ step = "verify"
    /\ verifyData # <<>>
    /\ LET val == ParseThousands(text)
       IN  verifyData' = <<[verifyData[1] EXCEPT !.deliveryFee = val,
                                                 !.serviceFee = Zero,
                                                 !.tax = Zero]>>
    /\ UNCHANGED <<step, receiptData, people, assignments, result>>
    /\ UNCHANGED <<now, taxPercent, assignVars, uploadVars>>

\* The keys pressed in the fee input.
FeeKeys == {"5", "Backspace"}

\* A key pressed in the fee input.
TypeFee(key) ==
    /\ verifyData # <<>>
    /\ LET shown == FeeShown(verifyData[1])
       IN  /\ key # "Backspace" => Len(shown) < MaxChars
           /\ Typed(shown, key) # shown
           /\ HandleFeeChange(Typed(shown, key))

\* The receipts whose fee is edited: up to MaxItems lines of quantity 1, with
\* or without a service fee.
FeeInitialData ==
    {[merchantName |-> "Risol Mejik", date |-> "10 December 2025",
      items |-> [i \in 1..n |->
                    ReceiptItem(ItemId(i - 1, 0), ItemNames[i], Num(4000 * i), 1)],
      subtotal |-> Num(20000), totalDiscount |-> Num(2000), tax |-> Num(2000),
      deliveryFee |-> Num(4000), serviceFee |-> serviceFee] :
        n \in 0..MaxItems, serviceFee \in {Num(0), Num(1000)}}

InitFee ==
    /\ step = "verify"
    /\ receiptData \in {<<d>> : d \in FeeInitialData}
    /\ people = <<>>
    /\ assignments = <<>>
    /\ verifyData = <<>>
    /\ result = <<>>
    /\ now = 0
    /\ taxPercent = Zero
    /\ assignPeople = <<>> /\ assignMap = <<>>
    /\ isAnalyzing = FALSE /\ error = <<>> /\ pc = "idle"
    /\ attempt = 0 /\ lastError = <<>> /\ requests = 0 /\ waitTime = 0

NextFee ==
    \/ MountVerifyStep
    \/ \E key \in FeeKeys : TypeFee(key)
    \/ HandleVerified
    \/ AssignBack
    \/ AssignFinish
    \/ RenderResult

SpecFee == InitFee /\ [][NextFee]_vars

\* ---------------------------------------------------------------------- C30
\* The fee input has been used on the receipt: no tax and no service fee.
FeeMerged(data) == data.tax = Zero /\ data.serviceFee = Zero

\* C30: a value v entered in the fee field makes deliveryFee = v, serviceFee = 0
\* and tax = 0, so that their sum (what the field shows next) is v, and leaves
\* items, subtotal and totalDiscount alone; in the result of such a receipt
\* every person's tax share is 0 and every person's fee share is v divided by
\* the number of people with items, so that the fee shares add up to v.
C30_FeeFieldMergesTax ==
    /\ [][\A key \in FeeKeys :
            TypeFee(key) =>
                LET v == ParseThousands(Typed(FeeShown(verifyData[1]), key))
                    after == verifyData'[1]
                IN  /\ after.deliveryFee = v
                    /\ after.serviceFee = Zero
                    /\ after.tax = Zero
                    /\ ExactEq(ExactSum(<<after.deliveryFee, after.serviceFee,
                                          after.tax>>), v)
                    /\ FeeShown(after) = FormatThousands(v)
                    /\ after.items = verifyData[1].items
                    /\ after.subtotal = verifyData[1].subtotal
                    /\ after.totalDiscount = verifyData[1].totalDiscount]_vars
    /\ []((Rendered /\ FeeMerged(Props)) =>
             /\ \A i \in DOMAIN Rows :
                   /\ Rows[i].tax = Zero
                   /\ Rows[i].fee = FDiv(Props.deliveryFee, Num(Len(Rows)))
             /\ Rows # <<>> =>
                   Within(ExactSum(Column(Rows, "fee")), Props.deliveryFee,
                          Len(Rows), Props.deliveryFee))

\* A fee of 605 was typed over the 6.000 shown at first (tax 2000 included),
\* and two people share the receipt.
C30_Witness ==
    /\ Rendered
    /\ FeeMerged(Props)
    /\ Props.deliveryFee = Num(605)
    /\ Len(Rows) = 2
    /\ Rows[1].fee = RoundRat(605, 2)

====
